---- MODULE Spec2Model ----
(***************************************************************************)
(* A model of the yolact export / sparsification glue:                     *)
(*   src/export.py        ExportArgs, export                               *)
(*   src/utils/sparse.py  SparseMLWrapper                                  *)
(*   src/utils/wrapper.py DeepsparseWrapper                                *)
(* Strings and paths are sequences of tokens; a token is one character or  *)
(* an atomic run of letters that holds no "." and no "/".                  *)
(***************************************************************************)
EXTENDS Integers, Sequences, FiniteSets, TLC

VARIABLES
    \* the export script (src/export.py)
    files,      \* the regular files on disk (paths)
    dirs,       \* the directories on disk (paths)
    argv,       \* the command line parse_args parsed, None before it ran
    args,       \* the ExportArgs object, None while there is none
    epc,        \* where the export script stands
    exc,        \* the exception that ended the script, None while there is none
    calls,      \* the library calls export() made so far, in order
    \* a SparseMLWrapper and its caller (src/utils/sparse.py)
    wrapper,        \* the fields of the SparseMLWrapper object
    inv,            \* the latest method call: the method and its arguments
    ret,            \* what that call returned or raised
    mcalls,         \* the calls that call made on the manager, logger and wandb
    loggers_given,  \* history: initialize_loggers was called with a logger that is not None
    \* a DeepsparseWrapper and its caller (src/utils/wrapper.py)
    dpc,            \* where __call__ stands
    inputs,         \* the tensor batch __call__ was given
    batch,          \* the local batch
    outs,           \* the local outs
    dcalls,         \* the calls __call__ made so far, in order
    dret            \* what __call__ returned

evars == <<files, dirs, argv, args, epc, exc, calls>>
svars == <<wrapper, inv, ret, mcalls, loggers_given>>
dvars == <<dpc, inputs, batch, outs, dcalls, dret>>
vars == <<evars, svars, dvars>>

(***************************************************************************)
(* Bounds of the model.                                                    *)
(***************************************************************************)
\* the export script is not started again once this many files exist
MaxFiles == 5

(***************************************************************************)
(* Python values.                                                          *)
(***************************************************************************)
None == [py |-> "None"]
PyStr(s) == [py |-> "str", v |-> s]
\* bool(x) of None or of a string
Truthy(x) == x # None /\ x.v # <<>>

(***************************************************************************)
(* str and pathlib.                                                        *)
(***************************************************************************)
Digits == <<"0", "1", "2", "3", "4", "5", "6", "7", "8", "9">>

\* f"{n}" of a non-negative int
RECURSIVE IntToStr(_)
IntToStr(n) ==
    IF n < 10 THEN <<Digits[n + 1]>>
    ELSE IntToStr(n \div 10) \o <<Digits[(n % 10) + 1]>>

\* s.rfind(c), 1-based; 0 when c is not in s
rfind(s, c) ==
    IF \E i \in 1..Len(s) : s[i] = c
    THEN CHOOSE i \in 1..Len(s) : s[i] = c /\ \A j \in (i + 1)..Len(s) : s[j] # c
    ELSE 0

\* PurePath.name: the final component
path_name(p) == SubSeq(p, rfind(p, "/") + 1, Len(p))

\* PurePath.parent of a path with a final component
path_parent(p) == SubSeq(p, 1, rfind(p, "/") - 1)

\* PurePath.suffix: from the last dot of the name, unless that dot leads or ends it
path_suffix(p) ==
    LET name == path_name(p)
        i == rfind(name, ".")
    IN IF 1 < i /\ i < Len(name) THEN SubSeq(name, i, Len(name)) ELSE <<>>

\* PurePath.stem: the name without its suffix
path_stem(p) ==
    LET name == path_name(p)
        i == rfind(name, ".")
    IN IF 1 < i /\ i < Len(name) THEN SubSeq(name, 1, i - 1) ELSE name

\* PurePath.with_suffix(suffix).name
with_suffix_name(p, suffix) ==
    LET name == path_name(p)
        old == path_suffix(p)
    IN IF old = <<>> THEN name \o suffix
       ELSE SubSeq(name, 1, Len(name) - Len(old)) \o suffix

\* parent / name, for a relative name
Join(parent, name) == parent \o <<"/">> \o name

DotOnnx == <<".", "onnx">>

\* Path.exists()
exists(p) == p \in files \cup dirs

\* every proper ancestor directory of p, and p itself
WithParents(p) ==
    {SubSeq(p, 1, i - 1) : i \in {j \in 1..Len(p) : p[j] = "/"}} \cup {p}

(***************************************************************************)
(* ExportArgs                                                              *)
(***************************************************************************)
\* a loop that looks at the disk once only: a mutant of safe_name_loop
safe_name_once(parent, filename, existence_counter, name) ==
    IF exists(name)
    THEN Join(parent, filename \o <<"-">> \o IntToStr(existence_counter + 1) \o DotOnnx)
    ELSE name

\* the while loop of get_safe_name
RECURSIVE safe_name_loop(_, _, _, _)
safe_name_loop(parent, filename, existence_counter, name) ==
    IF exists(name)
    THEN safe_name_loop(parent, filename, existence_counter + 1,
            Join(parent, filename \o <<"-">> \o IntToStr(existence_counter + 1) \o DotOnnx))
    ELSE name

get_safe_name(name, checkpoint, save_dir) ==
    LET n == IF Truthy(name) THEN name.v ELSE with_suffix_name(checkpoint, DotOnnx)
        filename == path_stem(n)
        first == Join(save_dir, filename \o DotOnnx)
    IN safe_name_loop(path_parent(first), filename, 0, first)

\* a validation that never fails: a mutant of checkpoint_missing
checkpoint_never_missing(checkpoint) == FALSE

\* the test of __post_init__ that raises FileNotFoundError
checkpoint_missing(checkpoint) == ~exists(checkpoint)

\* ExportArgs(...): the dataclass constructor with __post_init__
post_init(checkpoint, config, recipe, no_qat, batch_size, image_shape, save_dir, name) ==
    /\ epc = "idle"
    /\ calls' = <<>>
    /\ IF checkpoint_missing(checkpoint)
       THEN /\ exc' = [py |-> "FileNotFoundError", checkpoint |-> checkpoint]
            /\ epc' = "raised"
            /\ UNCHANGED <<files, dirs, args, svars, dvars>>
       ELSE /\ dirs' = dirs \cup WithParents(save_dir)
            /\ args' = [py |-> "ExportArgs",
                        checkpoint |-> checkpoint,
                        config |-> config,
                        recipe |-> recipe,
                        no_qat |-> no_qat,
                        batch_size |-> batch_size,
                        image_shape |-> image_shape,
                        save_dir |-> save_dir,
                        name |-> get_safe_name(name, checkpoint, save_dir)]
            /\ epc' = "constructed"
            /\ UNCHANGED <<files, exc, svars, dvars>>

(***************************************************************************)
(* export(args)                                                            *)
(***************************************************************************)
\* a test that takes the empty string for no recipe: a mutant of has_recipe
has_recipe_truthy(a) == Truthy(a.recipe)

\* args.recipe is not None
has_recipe(a) == a.recipe # None

\* lines 213-215: batch_shape, set_cfg, Yolact()
export_begin ==
    /\ epc = "constructed"
    /\ calls' = calls \o <<[fn |-> "set_cfg", config |-> args.config],
                           [fn |-> "Yolact"]>>
    /\ epc' = "model"
    /\ UNCHANGED <<files, dirs, argv, args, exc, svars, dvars>>

\* lines 217-219: the recipe's manager is created and applied
export_recipe ==
    /\ epc = "model"
    /\ calls' = IF has_recipe(args)
                THEN calls \o <<[fn |-> "from_yaml", file_path |-> args.recipe.v],
                                [fn |-> "manager.apply"]>>
                ELSE calls
    /\ epc' = "recipe"
    /\ UNCHANGED <<files, dirs, argv, args, exc, svars, dvars>>

\* lines 221-222: the checkpoint's state dict is loaded
export_load ==
    /\ epc = "recipe"
    /\ calls' = calls \o <<[fn |-> "torch.load", f |-> args.checkpoint],
                           [fn |-> "load_state_dict"]>>
    /\ epc' = "loaded"
    /\ UNCHANGED <<files, dirs, argv, args, exc, svars, dvars>>

\* lines 223-229: export_onnx writes the graph to args.name
export_onnx ==
    /\ epc = "loaded"
    /\ calls' = calls \o <<[fn |-> "export_onnx",
                            sample_batch |-> <<args.batch_size>> \o args.image_shape,
                            file_path |-> args.name,
                            convert_qat |-> ~args.no_qat]>>
    /\ files' = files \cup {args.name}
    /\ epc' = "done"
    /\ UNCHANGED <<dirs, argv, args, exc, svars, dvars>>

\* the script is started again
restart ==
    /\ epc \in {"done", "raised"}
    /\ Cardinality(files) < MaxFiles
    /\ epc' = "idle"
    /\ argv' = None
    /\ args' = None
    /\ exc' = None
    /\ calls' = <<>>
    /\ UNCHANGED <<files, dirs, svars, dvars>>

\* the export script runs alone: no wrapper is constructed beside it
NoWrapper ==
    /\ wrapper = None
    /\ inv = None
    /\ ret = None
    /\ mcalls = <<>>
    /\ loggers_given = FALSE

NoDeepsparse ==
    /\ dpc = "idle"
    /\ inputs = None
    /\ batch = None
    /\ outs = None
    /\ dcalls = <<>>
    /\ dret = None

\* no export script runs
NoExport ==
    /\ files = {}
    /\ dirs = {}
    /\ argv = None
    /\ args = None
    /\ epc = "idle"
    /\ exc = None
    /\ calls = <<>>

(***************************************************************************)
(* Inputs of the export script.                                            *)
(***************************************************************************)
Checkpoints == {<<"w", ".", "pth">>, <<"ck", "/", "m", ".", "pt", ".", "pth">>, <<"ck", "/", ".", "m">>}
SaveDirs == {<<"out">>}
Configs == {"yolact_base_config", "yolact_darknet53_config"}
BatchSizes == {1, 2}
ImageShapes == {<<3, 550, 550>>}
Names == {None, PyStr(<<>>), PyStr(<<"m", ".", "onnx">>), PyStr(<<"sub", "/", "w">>)}
Recipes == {None, PyStr(<<>>), PyStr(<<"r", ".", "yaml">>)}
Outputs == {<<"out", "/", "m", ".", "onnx">>, <<"out", "/", "m", "-", "1", ".", "onnx">>,
            <<"out", "/", "w", ".", "onnx">>}

\* parse_args(): the command line is parsed and ExportArgs(**vars(args)) built
parse_args ==
    \E checkpoint \in Checkpoints, config \in Configs, recipe \in Recipes,
       no_qat \in BOOLEAN, batch_size \in BatchSizes, image_shape \in ImageShapes,
       save_dir \in SaveDirs, name \in Names :
        /\ argv' = [checkpoint |-> checkpoint, config |-> config, recipe |-> recipe,
                    no_qat |-> no_qat, batch_size |-> batch_size,
                    image_shape |-> image_shape, save_dir |-> save_dir, name |-> name]
        /\ post_init(checkpoint, config, recipe, no_qat, batch_size, image_shape,
                     save_dir, name)

InitExport ==
    /\ files \in SUBSET (Checkpoints \cup Outputs)
    /\ Cardinality(files) <= MaxFiles
    /\ dirs = {path_parent(f) : f \in {g \in files : rfind(g, "/") > 0}}
    /\ argv = None
    /\ args = None
    /\ epc = "idle"
    /\ exc = None
    /\ calls = <<>>
    /\ NoWrapper
    /\ NoDeepsparse

NextExport ==
    \/ parse_args
    \/ export_begin
    \/ export_recipe
    \/ export_load
    \/ export_onnx
    \/ restart

SpecExport == InitExport /\ [][NextExport]_vars

(***************************************************************************)
(* SparseMLWrapper.  The epochs of a recipe's modifiers are floats, held   *)
(* here in halves: the number h stands for the epoch h/2.  The epoch the   *)
(* training loop passes is an int.                                         *)
(***************************************************************************)
PyInt(n) == [py |-> "int", v |-> n]
PyBool(b) == [py |-> "bool", v |-> b]

\* math.floor and math.ceil of the float h/2
math_floor(h) == h \div 2
math_ceil(h) == (h + 1) \div 2

\* max and min of a non-empty set of numbers
max(S) == CHOOSE x \in S : \A y \in S : y <= x
min(S) == CHOOSE x \in S : \A y \in S : x <= y

\* what a method does: what it returns or raises, the calls it made on its
\* collaborators in order, and the wrapper it leaves
Return(self, v, cs) == [self |-> self, ret |-> [kind |-> "return", v |-> v], mcalls |-> cs]
Raise(self, e, cs) == [self |-> self, ret |-> [kind |-> "raise", py |-> e], mcalls |-> cs]

\* type(model) in (DataParallel, DistributedDataParallel)
is_parallel(model) == model.py \in {"DataParallel", "DistributedDataParallel"}

\* ScheduledModifierManager.from_yaml(recipe): the manager the recipe describes
from_yaml(recipe) ==
    [py |-> "ScheduledModifierManager",
     pruning_modifiers |-> recipe.pruning,
     quantization_modifiers |-> recipe.quantization,
     learning_rate_modifiers |-> recipe.learning_rate,
     epoch_modifiers |-> recipe.epoch,
     max_epochs |-> recipe.max_epochs]

\* bool(recipe): None and the empty string are falsy
recipe_truthy(recipe) == recipe # None /\ recipe # PyStr(<<>>)

\* SparseMLWrapper.__init__
SparseMLWrapper(model, recipe) ==
    LET enabled == recipe_truthy(recipe)
    IN [enabled |-> enabled,
        model |-> IF is_parallel(model) THEN model.module ELSE model,
        recipe |-> recipe,
        manager |-> IF enabled THEN from_yaml(recipe) ELSE None,
        logger |-> None]

\* str(manager)
str_of(manager) == [py |-> "str", of |-> manager]

state_dict(self) ==
    IF self.enabled
    THEN Return(self, [recipe |-> str_of(self.manager)],
                <<[on |-> "manager", fn |-> "__str__"]>>)
    ELSE Return(self, [recipe |-> None], <<>>)

\* apply without its test of self.enabled: a mutant of apply
apply_unguarded(self) ==
    Return(self, None, <<[on |-> "manager", fn |-> "apply", model |-> self.model]>>)

apply(self) ==
    IF self.enabled
    THEN Return(self, None, <<[on |-> "manager", fn |-> "apply", model |-> self.model]>>)
    ELSE Return(self, None, <<>>)

initialize(self, start_epoch) ==
    IF self.enabled
    THEN Return(self, None, <<[on |-> "manager", fn |-> "initialize",
                               model |-> self.model, start_epoch |-> start_epoch]>>)
    ELSE Return(self, None, <<>>)

initialize_loggers(self, logger, tb_writer, wandb_logger, rank) ==
    LET stored == [self EXCEPT !.logger = logger]
        group == <<[on |-> "sparseml", fn |-> "SparsificationGroupLogger",
                    tensorboard |-> tb_writer],
                   [on |-> "manager", fn |-> "initialize_loggers"]>>
        artifact == <<[on |-> "wandb", fn |-> "Artifact"],
                      [on |-> "artifact", fn |-> "new_file"],
                      [on |-> "manager", fn |-> "__str__"],
                      [on |-> "file", fn |-> "write"],
                      [on |-> "wandb", fn |-> "log_artifact"]>>
    IN IF self.enabled /\ rank \in {-1, 0}
       THEN IF wandb_logger = None
            THEN Raise(stored, "AttributeError", group)
            ELSE IF wandb_logger.wandb # None
                 THEN Return(stored, None, group \o artifact)
                 ELSE Return(stored, None, group)
       ELSE Return(stored, None, <<>>)

\* what manager.modify(...) returns: the optimizer wrapper it builds
manager_modify_result(model, optimizer, steps_per_epoch, wrap_optim) ==
    [py |-> "RecipeManagerStepWrapper", wrap_optim |-> wrap_optim,
     steps_per_epoch |-> steps_per_epoch]

\* modify handing back the scaler it was given: a mutant of modify
modify_keeps_scaler(self, scaler, optimizer, model, dataloader) ==
    IF self.enabled
    THEN Return(self, scaler,
                <<[on |-> "manager", fn |-> "modify", model |-> model,
                   optimizer |-> optimizer, steps_per_epoch |-> Len(dataloader),
                   wrap_optim |-> scaler]>>)
    ELSE Return(self, scaler, <<>>)

modify(self, scaler, optimizer, model, dataloader) ==
    IF self.enabled
    THEN Return(self, manager_modify_result(model, optimizer, Len(dataloader), scaler),
                <<[on |-> "manager", fn |-> "modify", model |-> model,
                   optimizer |-> optimizer, steps_per_epoch |-> Len(dataloader),
                   wrap_optim |-> scaler]>>)
    ELSE Return(self, scaler, <<>>)

\* self.logger.info(...)
logger_info == <<[on |-> "logger", fn |-> "info"]>>

\* check_lr_override without its override: a mutant of check_lr_override
check_lr_override_keeps(self, scheduler) == Return(self, scheduler, <<>>)

check_lr_override(self, scheduler) ==
    IF self.enabled /\ self.manager.learning_rate_modifiers # {}
    THEN IF self.logger = None
         THEN Raise(self, "AttributeError", <<>>)
         ELSE Return(self, None, logger_info)
    ELSE Return(self, scheduler, <<>>)

\* check_epoch_override that logs only when it has a logger: a mutant of
\* check_epoch_override
check_epoch_override_quiet(self, epochs) ==
    IF self.enabled /\ self.manager.epoch_modifiers # {} /\ self.manager.max_epochs # 0
    THEN Return(self, PyInt(self.manager.max_epochs),
                IF self.logger = None THEN <<>> ELSE logger_info)
    ELSE Return(self, PyInt(epochs), <<>>)

check_epoch_override(self, epochs) ==
    IF self.enabled /\ self.manager.epoch_modifiers # {} /\ self.manager.max_epochs # 0
    THEN IF self.logger = None
         THEN Raise(self, "AttributeError", <<>>)
         ELSE Return(self, PyInt(IF self.manager.max_epochs # 0
                                 THEN self.manager.max_epochs ELSE epochs), logger_info)
    ELSE Return(self, PyInt(epochs), <<>>)

\* the value qat_active returns
qat_active_value(self, epoch) ==
    IF self.enabled /\ self.manager.quantization_modifiers # {}
    THEN LET qat_start == min({mod.start_epoch : mod \in self.manager.quantization_modifiers})
         IN qat_start < 2 * (epoch + 1)
    ELSE FALSE

qat_active(self, epoch) == Return(self, PyBool(qat_active_value(self, epoch)), <<>>)

\* the value reset_best returns
reset_best_value(self, epoch) ==
    IF ~self.enabled THEN FALSE
    ELSE LET pruning == self.manager.pruning_modifiers
             quantization == self.manager.quantization_modifiers
             pruning_start == IF pruning # {}
                              THEN math_floor(max({mod.start_epoch : mod \in pruning}))
                              ELSE -1
             pruning_end == IF pruning # {}
                            THEN math_ceil(max({mod.end_epoch : mod \in pruning}))
                            ELSE -1
             qat_start == IF quantization # {}
                          THEN math_floor(max({mod.start_epoch : mod \in quantization}))
                          ELSE -1
         IN (pruning_start <= epoch /\ epoch <= pruning_end) \/ epoch = qat_start

reset_best(self, epoch) == Return(self, PyBool(reset_best_value(self, epoch)), <<>>)

(***************************************************************************)
(* The training script's calls on its SparseMLWrapper, and their inputs.   *)
(***************************************************************************)
\* modifier epochs range over 0, 1/2, ..., MaxHalf/2
MaxHalf == 2
\* a recipe holds at most this many pruning and quantization modifiers
MaxMods == 2
\* a dataloader holds at most this many batches
MaxBatches == 2

Epochs == 0..math_ceil(MaxHalf)

PruningModifiers ==
    {m \in [start_epoch : 0..MaxHalf, end_epoch : 0..MaxHalf] : m.start_epoch <= m.end_epoch}
QuantizationModifiers == [start_epoch : 0..MaxHalf]

\* the pruning and quantization modifiers a recipe may hold
ModifierSets ==
    {PQ \in (SUBSET PruningModifiers) \X (SUBSET QuantizationModifiers) :
        Cardinality(PQ[1]) + Cardinality(PQ[2]) <= MaxMods}

SparseRecipes ==
    {None, PyStr(<<>>)} \cup
    {[py |-> "recipe", pruning |-> PQ[1], quantization |-> PQ[2], learning_rate |-> L,
      epoch |-> E, max_epochs |-> M] :
        PQ \in ModifierSets,
        L \in {{}, {[py |-> "LearningRateModifier"]}},
        E \in {{}, {[py |-> "EpochRangeModifier"]}},
        M \in {0, MaxHalf}}

Yolact == [py |-> "Yolact"]
Models == {Yolact, [py |-> "DataParallel", module |-> Yolact]}
Loggers == {None, [py |-> "Logger"]}
WandbLoggers == {None, [py |-> "WandbLogger", wandb |-> None],
                 [py |-> "WandbLogger", wandb |-> [py |-> "module"]]}
Ranks == {-1, 0, 1}
Scalers == {None, [py |-> "GradScaler"]}
Schedulers == {[py |-> "LambdaLR", id |-> 1], [py |-> "LambdaLR", id |-> 2]}
Dataloaders == UNION {[1..n -> {"batch"}] : n \in 0..MaxBatches}

\* the caller's side of a method call: the call is recorded with its outcome
Called(call, outcome) ==
    /\ inv' = call
    /\ wrapper' = outcome.self
    /\ ret' = outcome.ret
    /\ mcalls' = outcome.mcalls
    /\ loggers_given' =
        (loggers_given \/ (call.method = "initialize_loggers" /\ call.logger # None))
    /\ UNCHANGED <<evars, dvars>>

call_state_dict ==
    Called([method |-> "state_dict"], state_dict(wrapper))

call_apply ==
    Called([method |-> "apply"], apply(wrapper))

call_initialize ==
    \E start_epoch \in Epochs :
        Called([method |-> "initialize", start_epoch |-> start_epoch],
               initialize(wrapper, start_epoch))

call_initialize_loggers ==
    \E logger \in Loggers, wandb_logger \in WandbLoggers, rank \in Ranks :
        Called([method |-> "initialize_loggers", logger |-> logger,
                tb_writer |-> None, wandb_logger |-> wandb_logger, rank |-> rank],
               initialize_loggers(wrapper, logger, None, wandb_logger, rank))

call_modify ==
    \E scaler \in Scalers, dataloader \in Dataloaders :
        Called([method |-> "modify", scaler |-> scaler, optimizer |-> [py |-> "SGD"],
                model |-> Yolact, dataloader |-> dataloader],
               modify(wrapper, scaler, [py |-> "SGD"], Yolact, dataloader))

call_check_lr_override ==
    \E scheduler \in Schedulers :
        Called([method |-> "check_lr_override", scheduler |-> scheduler],
               check_lr_override(wrapper, scheduler))

call_check_epoch_override ==
    \E epochs \in Epochs :
        Called([method |-> "check_epoch_override", epochs |-> epochs],
               check_epoch_override(wrapper, epochs))

call_qat_active ==
    \E epoch \in Epochs :
        Called([method |-> "qat_active", epoch |-> epoch], qat_active(wrapper, epoch))

call_reset_best ==
    \E epoch \in Epochs :
        Called([method |-> "reset_best", epoch |-> epoch], reset_best(wrapper, epoch))

InitSparse ==
    /\ \E model \in Models, recipe \in SparseRecipes :
            wrapper = SparseMLWrapper(model, recipe)
    /\ inv = None
    /\ ret = None
    /\ mcalls = <<>>
    /\ loggers_given = FALSE
    /\ NoExport
    /\ NoDeepsparse

NextSparse ==
    \/ call_state_dict
    \/ call_apply
    \/ call_initialize
    \/ call_initialize_loggers
    \/ call_modify
    \/ call_check_lr_override
    \/ call_check_epoch_override
    \/ call_qat_active
    \/ call_reset_best

SpecSparse == InitSparse /\ [][NextSparse]_vars

(***************************************************************************)
(* DeepsparseWrapper.__call__                                              *)
(***************************************************************************)
\* the engine returns at most this many outputs
MaxOuts == 6

\* Tensor.cpu(), Tensor.numpy() and torch.from_numpy
cpu(t) == [t EXCEPT !.device = "cpu"]
numpy(t) == [py |-> "ndarray", data |-> t.data]
from_numpy(a) == [py |-> "Tensor", data |-> a.data, device |-> "cpu"]

\* the names in another order: a mutant of keys
keys_swapped == <<"conf", "loc", "mask", "priors", "proto">>

\* the local keys of __call__
keys == <<"loc", "conf", "mask", "priors", "proto">>

\* zip(a, b): the pairs, as many as the shorter of the two holds
zip(a, b) ==
    [i \in 1..(IF Len(a) <= Len(b) THEN Len(a) ELSE Len(b)) |-> <<a[i], b[i]>>]

\* dict(pairs): each key bound to the value of its last pair
dict(pairs) ==
    [k \in {pairs[i][1] : i \in DOMAIN pairs} |->
        pairs[max({i \in DOMAIN pairs : pairs[i][1] = k})][2]]

\* map(torch.from_numpy, values)
map_from_numpy(values) == [i \in DOMAIN values |-> from_numpy(values[i])]

\* the tensors a caller passes, and the values of the dict the engine may return
InputTensors == {[py |-> "Tensor", data |-> d, device |-> v] :
                    d \in {"img1", "img2"}, v \in {"cpu", "cuda"}}
Arrays == {[py |-> "ndarray", data |-> d] : d \in {"x", "y"}}
EngineOutputs == UNION {[1..n -> Arrays] : n \in 0..MaxOuts}

\* line 17: batch = inputs.cpu().numpy()
call_numpy ==
    /\ dpc = "idle"
    /\ \E t \in InputTensors :
        /\ inputs' = t
        /\ batch' = numpy(cpu(t))
        /\ dcalls' = <<[fn |-> "cpu", arg |-> t], [fn |-> "numpy", arg |-> cpu(t)]>>
    /\ outs' = None
    /\ dret' = None
    /\ dpc' = "batch"
    /\ UNCHANGED <<evars, svars>>

\* line 18: outs = self.engine.mapped_run([batch])
call_mapped_run ==
    /\ dpc = "batch"
    /\ \E result \in EngineOutputs :
        /\ outs' = result
        /\ dcalls' = Append(dcalls, [fn |-> "mapped_run", arg |-> <<batch>>,
                                     result |-> result])
    /\ dpc' = "ran"
    /\ UNCHANGED <<inputs, batch, dret, evars, svars>>

\* lines 19-20: outs = dict(zip(keys, map(torch.from_numpy, outs.values())))
\* map is lazy: zip draws a value only after it drew a key
call_zip ==
    /\ dpc = "ran"
    /\ outs' = dict(zip(keys, map_from_numpy(outs)))
    /\ dcalls' = dcalls \o [i \in DOMAIN zip(keys, outs) |->
                                [fn |-> "from_numpy", arg |-> outs[i]]]
    /\ dpc' = "named"
    /\ UNCHANGED <<inputs, batch, dret, evars, svars>>

\* line 21: return self.detect(outs, self)
call_detect ==
    /\ dpc = "named"
    /\ dcalls' = Append(dcalls, [fn |-> "detect", arg |-> outs])
    /\ dret' = [py |-> "detections", of |-> outs]
    /\ dpc' = "done"
    /\ UNCHANGED <<inputs, batch, outs, evars, svars>>

\* the caller is back and may call the wrapper again
call_returned ==
    /\ dpc = "done"
    /\ dpc' = "idle"
    /\ inputs' = None
    /\ batch' = None
    /\ outs' = None
    /\ dcalls' = <<>>
    /\ dret' = None
    /\ UNCHANGED <<evars, svars>>

InitDeepsparse ==
    /\ NoDeepsparse
    /\ NoExport
    /\ NoWrapper

NextDeepsparse ==
    \/ call_numpy
    \/ call_mapped_run
    \/ call_zip
    \/ call_detect
    \/ call_returned

SpecDeepsparse == InitDeepsparse /\ [][NextDeepsparse]_vars

(***************************************************************************)
(* Claims about ExportArgs and export, checked under SpecExport.           *)
(***************************************************************************)
\* the library calls of the run so far that are calls of fn
CallsOf(fn) == {i \in 1..Len(calls) : calls[i].fn = fn}

\* save_dir/<stem>.onnx for k = 0, save_dir/<stem>-k.onnx for k >= 1
Candidate(save_dir, stem, k) ==
    IF k = 0 THEN Join(save_dir, stem \o DotOnnx)
    ELSE Join(save_dir, stem \o <<"-">> \o IntToStr(k) \o DotOnnx)

\* the stem the command line asks for: of --name, or of the checkpoint's file name
RequestedStem ==
    IF argv.name # None /\ argv.name.v # <<>>
    THEN path_stem(argv.name.v)
    ELSE path_stem(argv.checkpoint)

\* C1: a constructor call that leaves "idle" either raises FileNotFoundError for a
\* checkpoint that is not on disk and constructs nothing, or constructs an object
\* whose checkpoint is on disk; a missing checkpoint never yields an object.
C1_MissingCheckpointRaises ==
    [][(epc = "idle" /\ epc' # "idle") =>
        IF argv'.checkpoint \in files \cup dirs
        THEN epc' = "constructed" /\ args' # None /\ exc' = None
             /\ args'.checkpoint = argv'.checkpoint
        ELSE epc' = "raised" /\ args' = None
             /\ exc' = [py |-> "FileNotFoundError", checkpoint |-> argv'.checkpoint]]_vars

\* C1 witness: the constructor was called with a checkpoint that is not on disk
C1_Witness ==
    /\ epc = "raised"
    /\ argv # None
    /\ ~exists(argv.checkpoint)
    /\ argv.name # None /\ argv.recipe # None

\* C2: once ExportArgs is constructed, and until export writes the file, args.name
\* is not on disk, and it is save_dir/<stem>.onnx when that is absent, otherwise
\* save_dir/<stem>-k.onnx for the smallest k >= 1 whose file is absent.
C2_SafeNameIsFresh ==
    epc \in {"constructed", "model", "recipe", "loaded"} =>
        /\ ~exists(args.name)
        /\ \E k \in 0..Cardinality(files) :
            /\ args.name = Candidate(args.save_dir, RequestedStem, k)
            /\ \A j \in 0..(k - 1) : exists(Candidate(args.save_dir, RequestedStem, j))

\* C2 witness: <stem>.onnx and <stem>-1.onnx exist and <stem>-2.onnx was chosen
C2_Witness ==
    /\ epc = "constructed"
    /\ exists(Candidate(args.save_dir, RequestedStem, 0))
    /\ exists(Candidate(args.save_dir, RequestedStem, 1))
    /\ args.name = Candidate(args.save_dir, RequestedStem, 2)

\* C4: in every run of export the manager is applied before the state dict is
\* loaded, the state dict is loaded before export_onnx is called, and a manager is
\* created and applied (once) exactly when args.recipe is not None.
C4_ExportCallOrder ==
    /\ \A i \in CallsOf("manager.apply") : \A j \in CallsOf("load_state_dict") : i < j
    /\ \A i \in CallsOf("from_yaml") : \A j \in CallsOf("manager.apply") : i < j
    /\ \A i \in CallsOf("load_state_dict") : \A j \in CallsOf("export_onnx") : i < j
    /\ CallsOf("load_state_dict") # {} =>
            /\ Cardinality(CallsOf("manager.apply")) = (IF args.recipe # None THEN 1 ELSE 0)
            /\ Cardinality(CallsOf("from_yaml")) = (IF args.recipe # None THEN 1 ELSE 0)
    /\ epc = "done" =>
            /\ Cardinality(CallsOf("load_state_dict")) = 1
            /\ Cardinality(CallsOf("export_onnx")) = 1

\* C4 witness: a finished export whose recipe is the empty string, not None
C4_Witness ==
    /\ epc = "done"
    /\ args.recipe = PyStr(<<>>)
    /\ CallsOf("manager.apply") # {}

(***************************************************************************)
(* Claims about SparseMLWrapper, checked under SpecSparse.                 *)
(***************************************************************************)
\* the latest call is a call of method m
Latest(m) == inv # None /\ inv.method = m

Returned(v) == [kind |-> "return", v |-> v]

\* what a call hands back when it does nothing: its argument where it has one to
\* return, False from the two predicates, {'recipe': None} from state_dict, else None
NoOpResult(call) ==
    CASE call.method = "modify" -> Returned(call.scaler)
      [] call.method = "check_lr_override" -> Returned(call.scheduler)
      [] call.method = "check_epoch_override" -> Returned(PyInt(call.epochs))
      [] call.method \in {"qat_active", "reset_best"} -> Returned(PyBool(FALSE))
      [] call.method = "state_dict" -> Returned([recipe |-> None])
      [] OTHER -> Returned(None)

\* C3 as stated: on a wrapper built with an empty or None recipe every method call
\* leaves the wrapper's state unchanged, makes no call and returns its argument,
\* False or None.
C3_DisabledIsNoOp ==
    [][~wrapper.enabled =>
        /\ wrapper' = wrapper
        /\ mcalls' = <<>>
        /\ ret' = NoOpResult(inv')]_vars

\* C3 amended: on a wrapper built with an empty or None recipe every method call
\* makes no call and returns its argument, False or None ({'recipe': None} from
\* state_dict); it leaves the wrapper's state unchanged, except that
\* initialize_loggers stores its logger argument in self.logger.
C3_DisabledIsNoOpButLogger ==
    [][~wrapper.enabled =>
        /\ wrapper' = IF inv'.method = "initialize_loggers"
                      THEN [wrapper EXCEPT !.logger = inv'.logger]
                      ELSE wrapper
        /\ mcalls' = <<>>
        /\ ret' = NoOpResult(inv')]_vars

\* C3 witness: a disabled wrapper (empty recipe) that holds a logger handed a
\* scaler back from modify
C3_Witness ==
    /\ ~wrapper.enabled
    /\ wrapper.recipe = PyStr(<<>>)
    /\ wrapper.logger # None
    /\ Latest("modify")
    /\ inv.scaler # None
    /\ ret = Returned(inv.scaler)

\* C5: on an enabled wrapper apply, initialize and modify each make exactly one
\* call, on the manager, with the arguments of the source; modify returns the
\* manager's result, not the scaler.
C5_EnabledDelegates ==
    (inv # None /\ wrapper.enabled) =>
        /\ inv.method = "apply" =>
            mcalls = <<[on |-> "manager", fn |-> "apply", model |-> wrapper.model]>>
        /\ inv.method = "initialize" =>
            mcalls = <<[on |-> "manager", fn |-> "initialize", model |-> wrapper.model,
                        start_epoch |-> inv.start_epoch]>>
        /\ inv.method = "modify" =>
            /\ mcalls = <<[on |-> "manager", fn |-> "modify", model |-> inv.model,
                           optimizer |-> inv.optimizer,
                           steps_per_epoch |-> Len(inv.dataloader),
                           wrap_optim |-> inv.scaler]>>
            /\ ret = Returned(manager_modify_result(inv.model, inv.optimizer,
                                                    Len(inv.dataloader), inv.scaler))
            /\ ret # Returned(inv.scaler)

\* C5 witness: modify on an enabled wrapper, with a scaler and two batches
C5_Witness ==
    /\ wrapper.enabled
    /\ Latest("modify")
    /\ inv.scaler # None
    /\ Len(inv.dataloader) = 2
    /\ Len(mcalls) = 1

\* some pruning modifier of the recipe covers the epoch
PruningActive(self, epoch) ==
    \E mod \in self.manager.pruning_modifiers :
        mod.start_epoch <= 2 * epoch /\ 2 * epoch <= mod.end_epoch

\* C6: on an enabled wrapper reset_best(epoch) returns True at every epoch some
\* pruning modifier covers (start_epoch <= epoch <= end_epoch).
C6_ResetBestWhilePruning ==
    (Latest("reset_best") /\ wrapper.enabled /\ PruningActive(wrapper, inv.epoch)) =>
        ret = Returned(PyBool(TRUE))

\* the first epoch of 0, 1, 2, ... at which qat_active is True
QatJustStarted(self, epoch) ==
    /\ qat_active_value(self, epoch)
    /\ \A e \in 0..(epoch - 1) : ~qat_active_value(self, e)

\* C7: on an enabled wrapper with a quantization modifier reset_best(epoch) returns
\* True at the first epoch at which qat_active(epoch) is True.
C7_ResetBestWhenQatStarts ==
    (/\ Latest("reset_best")
     /\ wrapper.enabled
     /\ wrapper.manager.quantization_modifiers # {}
     /\ QatJustStarted(wrapper, inv.epoch)) =>
        ret = Returned(PyBool(TRUE))

\* the override branch of check_lr_override is taken
LrOverridden(self) == self.enabled /\ self.manager.learning_rate_modifiers # {}

\* the override branch of check_epoch_override is taken
EpochOverridden(self) ==
    self.enabled /\ self.manager.epoch_modifiers # {} /\ self.manager.max_epochs # 0

\* C8 as stated: check_lr_override returns None exactly when the wrapper is enabled
\* and the manager has a learning-rate modifier, and the scheduler otherwise.
C8_LrOverrideAsStated ==
    Latest("check_lr_override") =>
        ret = IF LrOverridden(wrapper) THEN Returned(None) ELSE Returned(inv.scheduler)

\* C8 amended: check_lr_override returns None when the wrapper is enabled, the
\* manager has a learning-rate modifier and self.logger is set; with those
\* modifiers and self.logger still None it raises AttributeError; in every other
\* case it returns the scheduler it was given.
C8_LrOverride ==
    Latest("check_lr_override") =>
        ret = IF LrOverridden(wrapper)
              THEN IF wrapper.logger # None
                   THEN Returned(None)
                   ELSE [kind |-> "raise", py |-> "AttributeError"]
              ELSE Returned(inv.scheduler)

\* C8 witness: the scheduler was overridden
C8_Witness ==
    /\ Latest("check_lr_override")
    /\ LrOverridden(wrapper)
    /\ ret = Returned(None)
    /\ mcalls = logger_info

\* C10: on an enabled wrapper a check_lr_override or check_epoch_override that
\* takes its override branch returns the override only if initialize_loggers was
\* called before with a logger that is not None; until then self.logger is None
\* and the call raises.
C10_OverrideNeedsLogger ==
    /\ (Latest("check_lr_override") /\ LrOverridden(wrapper)) =>
        /\ ret.kind = "return" => (loggers_given /\ ret.v = None)
        /\ ~loggers_given => (wrapper.logger = None /\ ret.kind = "raise")
    /\ (Latest("check_epoch_override") /\ EpochOverridden(wrapper)) =>
        /\ ret.kind = "return" =>
            (loggers_given /\ ret.v = PyInt(wrapper.manager.max_epochs))
        /\ ~loggers_given => (wrapper.logger = None /\ ret.kind = "raise")

\* C10 witness: check_epoch_override took its override branch before any logger
\* was given, and raised
C10_Witness ==
    /\ Latest("check_epoch_override")
    /\ EpochOverridden(wrapper)
    /\ ~loggers_given
    /\ ret.kind = "raise"

(***************************************************************************)
(* Claims about DeepsparseWrapper, checked under SpecDeepsparse.           *)
(***************************************************************************)
\* the names of the calls made so far, in order
CallNames == [i \in DOMAIN dcalls |-> dcalls[i].fn]

\* n times the name fn
Repeat(fn, n) == [i \in 1..n |-> fn]

\* C9: a finished __call__ converted the input to numpy, ran the engine once on
\* the single batch, rebuilt the tensors and called detect once, in that order;
\* detect received the engine's i-th output under the i-th name of loc, conf,
\* mask, priors, proto, and no other key.
C9_NamedOutputsInOrder ==
    dpc = "done" =>
        LET run == dcalls[3]
            n == IF Len(run.result) <= 5 THEN Len(run.result) ELSE 5
            names == <<"loc", "conf", "mask", "priors", "proto">>
            detect == dcalls[Len(dcalls)]
        IN /\ CallNames = <<"cpu", "numpy", "mapped_run">> \o Repeat("from_numpy", n)
                            \o <<"detect">>
           /\ run.arg = <<[py |-> "ndarray", data |-> inputs.data]>>
           /\ DOMAIN detect.arg = {names[i] : i \in 1..n}
           /\ \A i \in 1..n :
                detect.arg[names[i]] =
                    [py |-> "Tensor", data |-> run.result[i].data, device |-> "cpu"]
           /\ dret = [py |-> "detections", of |-> detect.arg]

\* C9 witness: a finished call whose engine returned five outputs, not all alike
C9_Witness ==
    /\ dpc = "done"
    /\ Len(dcalls[3].result) = 5
    /\ dcalls[3].result[1] # dcalls[3].result[2]
    /\ DOMAIN outs = {"loc", "conf", "mask", "priors", "proto"}
====
